---- MODULE Spec2Model ----
(***************************************************************************)
(* Model of ms_utils/lirical_batch/lirical_pipeline.py: parse_args (the    *)
(* storage-prefix check, check_paths, the phenopacket loop that builds the *)
(* sample / phenopacket / vcf table) and main (one step per table row).    *)
(*                                                                         *)
(* Python strings on which the code does character work (paths, uris) are  *)
(* sequences of one-character strings.  Sample ids are only compared for   *)
(* equality and are TLA+ strings.                                          *)
(***************************************************************************)
EXTENDS Integers, Sequences, FiniteSets, TLC

\* Longest list of paths given for the positional phenopacket_paths and for --vcf.
MaxPatterns == 2

----------------------------------------------------------------------------
(* Python string primitives *)

\* s.startswith(p)
StartsWith(s, p) == Len(s) >= Len(p) /\ SubSeq(s, 1, Len(p)) = p

\* s.endswith(p)
EndsWith(s, p) == Len(s) >= Len(p) /\ SubSeq(s, Len(s) - Len(p) + 1, Len(s)) = p

\* sub in s
Contains(sub, s) ==
    \E k \in 0..(Len(s) - Len(sub)) : SubSeq(s, k + 1, k + Len(sub)) = sub

\* s.replace(old, new): every non-overlapping occurrence, left to right
RECURSIVE Replace(_, _, _)
Replace(s, old, new) ==
    IF Len(s) < Len(old) \/ Len(old) = 0 THEN s
    ELSE IF SubSeq(s, 1, Len(old)) = old
         THEN new \o Replace(SubSeq(s, Len(old) + 1, Len(s)), old, new)
         ELSE <<Head(s)>> \o Replace(Tail(s), old, new)

\* s.split(c)[0]: the characters before the first c, or all of s
RECURSIVE SplitFirst(_, _)
SplitFirst(s, c) ==
    IF s = <<>> \/ Head(s) = c THEN <<>>
    ELSE <<Head(s)>> \o SplitFirst(Tail(s), c)

\* os.path.basename(p): the part after the last "/"
RECURSIVE Basename(_)
Basename(p) ==
    IF \A k \in 1..Len(p) : p[k] # "/" THEN p
    ELSE Basename(Tail(p))

----------------------------------------------------------------------------
(* String literals *)

GS == <<"g", "s">>
HAILAZ == <<"h", "a", "i", "l", "-", "a", "z">>
\* a scheme the pipeline does not know
S3 == <<"s", "3">>
SchemeSep == <<":", "/", "/">>
FilePrefix == <<"f", "i", "l", "e", ":", "/", "/", "/">>
\* the known prefixes with the unknown scheme let through
KnownPrefixesAndS3 == {GS, HAILAZ, S3}

KnownPrefixes == {GS, HAILAZ}

Path(scheme, body) == scheme \o SchemeSep \o body

\* account/container (hail-az) or bucket/folder (gs)
Root == <<"a", "/", "c", "/">>
S1VcfGz == <<"S", "1", ".", "v", "c", "f", ".", "g", "z">>
S2VcfGz == <<"S", "2", ".", "v", "c", "f", ".", "g", "z">>
S3VcfGz == <<"S", "3", ".", "v", "c", "f", ".", "g", "z">>
Tbi == <<".", "t", "b", "i">>
Json == <<".", "j", "s", "o", "n">>

RefDir == Root \o <<"r", "e", "f">>
OutDir == Root \o <<"o", "u", "t">>
MetaDir == Root \o <<"m">>
Meta1 == MetaDir \o <<"/", "m", "e", "t", "a", "1">> \o Json
Meta2 == MetaDir \o <<"/", "m", "e", "t", "a", "2">> \o Json
VcfDir == Root \o <<"d", "i", "r">>
Vcf1 == VcfDir \o <<"/">> \o S1VcfGz
Vcf2 == VcfDir \o <<"/">> \o S2VcfGz
Vcf2Tbi == Vcf2 \o Tbi
Missing == Root \o <<"x">>

----------------------------------------------------------------------------
(* The storage the run works against *)

Slash == <<"/">>

\* s.count("/")
RECURSIVE CountSlashes(_)
CountSlashes(s) ==
    IF s = <<>> THEN 0
    ELSE (IF Head(s) = "/" THEN 1 ELSE 0) + CountSlashes(Tail(s))

\* s.rstrip("/")
RECURSIVE RStripSlash(_)
RStripSlash(s) ==
    IF s # <<>> /\ s[Len(s)] = "/" THEN RStripSlash(SubSeq(s, 1, Len(s) - 1)) ELSE s

\* s[n:], the empty string when n is past the end
From(s, n) == SubSeq(s, n + 1, Len(s))

\* _az_parse_blob_path(path), lines 74-84: account, container and blob name
\* (has_blob FALSE for None); ok FALSE when the exception of line 84 is raised
az_parse_blob_path(path) ==
    LET stripped == IF StartsWith(path, HAILAZ \o SchemeSep)
                    THEN From(path, Len(HAILAZ \o SchemeSep)) ELSE path
        path_fmt == RStripSlash(stripped)
        sep_count == CountSlashes(path_fmt)
        account == SplitFirst(path_fmt, "/")
        after_account == From(path_fmt, Len(account) + 1)
        container_name == SplitFirst(after_account, "/")
    IN  IF sep_count = 1
        THEN [ok |-> TRUE, account |-> account, container_name |-> container_name,
              has_blob |-> FALSE, blob_name |-> <<>>]
        ELSE IF sep_count > 1
        THEN [ok |-> TRUE, account |-> account, container_name |-> container_name,
              has_blob |-> TRUE, blob_name |-> From(after_account, Len(container_name) + 1)]
        ELSE [ok |-> FALSE, account |-> <<>>, container_name |-> <<>>,
              has_blob |-> FALSE, blob_name |-> <<>>]

\* az_storage_ls(path), lines 102-124, on a container whose blob names, in the
\* order list_blobs gives them, are blobs
az_storage_ls(path, blobs) ==
    LET parsed == az_parse_blob_path(path)
        blob_list == IF parsed.has_blob
                     THEN SelectSeq(blobs, LAMBDA name : StartsWith(name, parsed.blob_name))
                     ELSE blobs
        prefix_len == IF parsed.has_blob /\ parsed.blob_name # <<>>
                      THEN Len(parsed.blob_name) + 1 ELSE 0
        kept == SelectSeq(blob_list, LAMBDA name : ~Contains(Slash, From(name, prefix_len)))
    IN  [raised |-> ~parsed.ok,
         paths |-> IF parsed.ok
                   THEN [k \in 1..Len(kept) |->
                            HAILAZ \o SchemeSep \o parsed.account \o Slash
                                \o parsed.container_name \o Slash \o kept[k]]
                   ELSE <<>>]

\* What hadoop_ls finds for a path body: a folder lists its files in name
\* order, a file lists itself, anything else lists nothing.
LsBody(body) ==
    CASE body = MetaDir -> <<Meta1, Meta2>>
      [] body = Meta1 -> <<Meta1>>
      [] body = Meta2 -> <<Meta2>>
      [] body = VcfDir -> <<Vcf1, Vcf2, Vcf2Tbi>>
      [] body = Vcf1 -> <<Vcf1>>
      [] body = Vcf2 -> <<Vcf2>>
      [] body = Vcf2Tbi -> <<Vcf2Tbi>>
      [] OTHER -> <<>>

\* the blob names of container c of account a, in name order
AzBlobs ==
    << From(Vcf1, Len(Root)), From(Vcf2, Len(Root)), From(Vcf2Tbi, Len(Root)),
       From(Meta1, Len(Root)), From(Meta2, Len(Root)) >>

\* storage_ls(path): az_storage_ls on a hail-az path, and otherwise
\* gcs_storage_ls, which gives back the full paths of what hadoop_ls finds
StorageLs(path) ==
    LET scheme == SplitFirst(path, ":")
        body == SubSeq(path, Len(scheme) + Len(SchemeSep) + 1, Len(path))
        found == LsBody(body)
    IN  IF scheme = HAILAZ
        THEN az_storage_ls(path, AzBlobs).paths
        ELSE [k \in 1..Len(found) |-> Path(scheme, found[k])]

None == "None"
SampleIds == {"S1", "S2"}

Uri(u) == [has_uri |-> TRUE, uri |-> u]
NoUri == [has_uri |-> FALSE, uri |-> <<>>]

\* the uris a phenopacket's htsFiles entry may carry
Uris ==
    { FilePrefix \o S1VcfGz,                     \* file:///S1.vcf.gz
      FilePrefix \o S2VcfGz,                     \* file:///S2.vcf.gz
      FilePrefix \o <<"d", "i", "r", "/">> \o S1VcfGz,  \* file:///dir/S1.vcf.gz
      S3VcfGz }                                  \* S3.vcf.gz, in no folder

\* json.loads(storage_read(path)): the parsed phenopackets a file may hold.
\* subject is the value of .get("subject", {}).get("id"); hts_kind tells whether
\* the "htsFiles" key is absent, holds something that is not a list, or holds
\* the list htsFiles.
Hts(kind, list) == [hts_kind |-> kind, htsFiles |-> list]

HtsValues ==
    { Hts("list", <<Uri(u)>>) : u \in Uris }

MalformedHtsValues ==
    { Hts("absent", <<>>), Hts("notalist", <<>>), Hts("list", <<>>),
      Hts("list", <<NoUri>>),
      Hts("list", <<Uri(<<"x">> \o FilePrefix \o S1VcfGz)>>),
      Hts("list", <<Uri(FilePrefix \o S1VcfGz), Uri(FilePrefix \o S2VcfGz)>>) }

Phenopacket(id, hts) ==
    [subject |-> id, hts_kind |-> hts.hts_kind, htsFiles |-> hts.htsFiles]

Phenopackets ==
    { Phenopacket(id, h) : id \in SampleIds \cup {None}, h \in HtsValues }
    \cup { Phenopacket("S1", h) : h \in MalformedHtsValues }
    \cup { Phenopacket("S2", Hts("absent", <<>>)), Phenopacket("S2", Hts("list", <<>>)) }

----------------------------------------------------------------------------
(* Command line *)

SeqsUpTo(S, n) == UNION { [1..k -> S] : k \in 1..n }

\* the elements of a sequence
Range(seq) == { seq[k] : k \in 1..Len(seq) }

\* A command line whose paths are all on scheme s, except that the argument
\* at position odd_pos (if any) is on scheme odd.
\* Positions: 1 -d, 2 -e, 3 -o, then the phenopacket paths, then the --vcf paths.
CommandLine(s, odd, odd_pos, pheno, vcf, sid) ==
    LET at(pos) == IF pos = odd_pos THEN odd ELSE s
    IN  [ lirical_data_dir |-> Path(at(1), RefDir),
          exomiser_data_dir |-> Path(at(2), RefDir),
          output_dir |-> Path(at(3), OutDir),
          phenopacket_paths |-> [k \in 1..Len(pheno) |-> Path(at(3 + k), pheno[k])],
          vcf |-> [k \in 1..Len(vcf) |-> Path(at(3 + MaxPatterns + k), vcf[k])],
          sample_id |-> sid ]

Schemes == {GS, HAILAZ, S3}
RequestedSampleIds == {None, "S1"}

\* every path on one scheme, any lists of paths
OneSchemeCommandLines ==
    { CommandLine(s, s, 0, pheno, vcf, sid) :
        s \in Schemes,
        pheno \in SeqsUpTo({MetaDir, Meta1, Missing}, MaxPatterns),
        vcf \in SeqsUpTo({VcfDir, Vcf2Tbi, Missing}, MaxPatterns),
        sid \in RequestedSampleIds }

\* one argument on another scheme than the rest, lists of the two folders
MixedSchemeCommandLines ==
    { CommandLine(s, odd, odd_pos, pheno, vcf, sid) :
        s \in Schemes, odd \in Schemes,
        odd_pos \in 1..(3 + 2 * MaxPatterns),
        pheno \in SeqsUpTo({MetaDir}, MaxPatterns),
        vcf \in SeqsUpTo({VcfDir}, MaxPatterns),
        sid \in RequestedSampleIds }

CommandLines == OneSchemeCommandLines \cup MixedSchemeCommandLines

----------------------------------------------------------------------------
(* State *)

VARIABLES
    args,                      \* the parsed command line
    pc,                        \* where the run is
    storage_prefix,            \* the backend chosen, <<>> before that
    store,                     \* the (path, content) pairs of the phenopackets read so far
    io,                        \* the storage_ls / storage_read calls made, in order
    phenopacket_paths,         \* check_paths(args.phenopacket_paths)
    vcf_paths,                 \* check_paths(args.vcf)
    i,                         \* position of the for loop in phenopacket_paths
    rows,
    requested_sample_id_found,
    metadata_df,               \* the table parse_args returned
    steps,                     \* the steps main created
    error,                     \* why the run ended early, NoError otherwise
    fn_in,                     \* a single call of a function taken alone: what is called on what
    fn_out                     \* what that call gave, NoResult before it

vars == <<args, pc, storage_prefix, store, io, phenopacket_paths, vcf_paths, i,
          rows, requested_sample_id_found, metadata_df, steps, error>>

fnvars == <<fn_in, fn_out>>

NoCall == [op |-> "none"]
NoResult == [done |-> FALSE]

NoError == [kind |-> "none", path |-> <<>>, filename |-> <<>>]
Error(kind, path, filename) == [kind |-> kind, path |-> path, filename |-> filename]

Init ==
    /\ args \in CommandLines
    /\ pc = "parse_args"
    /\ storage_prefix = <<>>
    /\ store = {}
    /\ io = <<>>
    /\ phenopacket_paths = <<>>
    /\ vcf_paths = <<>>
    /\ i = 1
    /\ rows = <<>>
    /\ requested_sample_id_found = FALSE
    /\ metadata_df = <<>>
    /\ steps = <<>>
    /\ error = NoError
    /\ fn_in = NoCall
    /\ fn_out = NoResult

----------------------------------------------------------------------------
(* parse_args: which cloud *)

get_storage_prefix(path) == SplitFirst(path, ":")

\* the list of line 175, which leaves the output directory out, used for the check
all_storage_paths_without_output(a) ==
    <<a.lirical_data_dir, a.exomiser_data_dir>> \o a.phenopacket_paths \o a.vcf

all_storage_paths(a) ==
    <<a.lirical_data_dir, a.exomiser_data_dir, a.output_dir>>
        \o a.phenopacket_paths \o a.vcf

all_storage_prefixes(a) ==
    { get_storage_prefix(all_storage_paths(a)[k]) : k \in 1..Len(all_storage_paths(a)) }

\* lines 155-191: one common known prefix, or parser.error (which exits)
SelectStorage ==
    /\ pc = "parse_args"
    /\ LET prefixes == all_storage_prefixes(args) IN
        IF Cardinality(prefixes) # 1
        THEN /\ error' = Error("mixed_prefixes", <<>>, <<>>)
             /\ pc' = "exit"
             /\ UNCHANGED storage_prefix
        ELSE LET prefix == CHOOSE x \in prefixes : TRUE IN
             IF prefix \notin KnownPrefixes
             THEN /\ error' = Error("unknown_prefix", prefix, <<>>)
                  /\ pc' = "exit"
                  /\ storage_prefix' = prefix
             ELSE /\ storage_prefix' = prefix
                  /\ pc' = "check_phenopacket_paths"
                  /\ UNCHANGED error
    /\ UNCHANGED <<fnvars, args, store, io, phenopacket_paths, vcf_paths, i, rows,
                   requested_sample_id_found, metadata_df, steps>>

----------------------------------------------------------------------------
(* parse_args: check_paths *)

LsCall(path) == [op |-> "ls", path |-> path]
ReadCall(path) == [op |-> "read", path |-> path]

\* check_paths that passes over a path that lists nothing
RECURSIVE check_paths_skipping(_)
check_paths_skipping(paths) ==
    IF paths = <<>>
    THEN [ok |-> TRUE, checked_paths |-> <<>>, calls |-> <<>>, not_found |-> <<>>]
    ELSE LET rest == check_paths_skipping(Tail(paths))
         IN  [ok |-> TRUE,
              checked_paths |-> StorageLs(Head(paths)) \o rest.checked_paths,
              calls |-> <<LsCall(Head(paths))>> \o rest.calls,
              not_found |-> <<>>]

\* check_paths that puts each new listing in front of the earlier ones
RECURSIVE check_paths_prepending(_)
check_paths_prepending(paths) ==
    IF paths = <<>>
    THEN [ok |-> TRUE, checked_paths |-> <<>>, calls |-> <<>>, not_found |-> <<>>]
    ELSE LET path == Head(paths)
             current_paths == StorageLs(path)
         IN  IF current_paths = <<>>
             THEN [ok |-> FALSE, checked_paths |-> <<>>, calls |-> <<LsCall(path)>>,
                   not_found |-> path]
             ELSE LET rest == check_paths_prepending(Tail(paths))
                  IN  [ok |-> rest.ok,
                       checked_paths |-> rest.checked_paths \o current_paths,
                       calls |-> <<LsCall(path)>> \o rest.calls,
                       not_found |-> rest.not_found]

\* check_paths(paths), lines 194-201: the paths found, the storage_ls calls
\* made, and the first path that listed nothing (when ok is FALSE).
RECURSIVE check_paths(_)
check_paths(paths) ==
    IF paths = <<>>
    THEN [ok |-> TRUE, checked_paths |-> <<>>, calls |-> <<>>, not_found |-> <<>>]
    ELSE LET path == Head(paths)
             current_paths == StorageLs(path)
         IN  IF current_paths = <<>>
             THEN [ok |-> FALSE, checked_paths |-> <<>>, calls |-> <<LsCall(path)>>,
                   not_found |-> path]
             ELSE LET rest == check_paths(Tail(paths))
                  IN  [ok |-> rest.ok,
                       checked_paths |-> current_paths \o rest.checked_paths,
                       calls |-> <<LsCall(path)>> \o rest.calls,
                       not_found |-> rest.not_found]

\* line 203
CheckPhenopacketPaths ==
    /\ pc = "check_phenopacket_paths"
    /\ LET r == check_paths(args.phenopacket_paths) IN
        /\ io' = io \o r.calls
        /\ IF r.ok
           THEN /\ phenopacket_paths' = r.checked_paths
                /\ pc' = "check_vcf_paths"
                /\ UNCHANGED error
           ELSE /\ error' = Error("not_found", r.not_found, <<>>)
                /\ pc' = "exit"
                /\ UNCHANGED phenopacket_paths
    /\ UNCHANGED <<fnvars, args, storage_prefix, store, vcf_paths, i, rows,
                   requested_sample_id_found, metadata_df, steps>>

\* line 204
CheckVcfPaths ==
    /\ pc = "check_vcf_paths"
    /\ LET r == check_paths(args.vcf) IN
        /\ io' = io \o r.calls
        /\ IF r.ok
           THEN /\ vcf_paths' = r.checked_paths
                /\ pc' = "for_phenopacket_path"
                /\ UNCHANGED error
           ELSE /\ error' = Error("not_found", r.not_found, <<>>)
                /\ pc' = "exit"
                /\ UNCHANGED vcf_paths
    /\ UNCHANGED <<fnvars, args, storage_prefix, store, phenopacket_paths, i, rows,
                   requested_sample_id_found, metadata_df, steps>>

----------------------------------------------------------------------------
(* parse_args: the table *)

\* line 223-225: "ok", "missing_htsfiles" (parser.error) or "IndexError"
\* (htsFiles[0] of an empty list raises before the uri test)
htsFiles_check(phenopacket_json) ==
    IF phenopacket_json.hts_kind = "absent" THEN "missing_htsfiles"
    ELSE IF phenopacket_json.hts_kind # "list" THEN "missing_htsfiles"
    ELSE IF phenopacket_json.htsFiles = <<>> THEN "IndexError"
    ELSE IF ~phenopacket_json.htsFiles[1].has_uri THEN "missing_htsfiles"
    ELSE "ok"

\* line 226
vcf_filename_of(phenopacket_json) ==
    Replace(phenopacket_json.htsFiles[1].uri, FilePrefix, <<>>)

\* no filter at all: every path of the pool matches
matching_vcf_paths_unfiltered(vcf_filename, pool) == pool

\* falls back on the file name itself when no path contains it
matching_vcf_paths_or_name(vcf_filename, pool) ==
    IF SelectSeq(pool, LAMBDA vcf_path : Contains(vcf_filename, vcf_path)) = <<>>
    THEN <<vcf_filename>>
    ELSE SelectSeq(pool, LAMBDA vcf_path : Contains(vcf_filename, vcf_path))

\* line 228
matching_vcf_paths(vcf_filename, pool) ==
    SelectSeq(pool, LAMBDA vcf_path : Contains(vcf_filename, vcf_path))

\* the last match instead of the first
last_match(matching) == matching[Len(matching)]

\* line 231
first_match(matching) == matching[1]

\* validation without the test of line 220
validate_without_subject(phenopacket_json, pool) ==
    IF htsFiles_check(phenopacket_json) # "ok" THEN htsFiles_check(phenopacket_json)
    ELSE IF matching_vcf_paths(vcf_filename_of(phenopacket_json), pool) = <<>>
         THEN "vcf_not_found"
    ELSE "ok"

\* lines 220-230: the parser.error (or exception) the record ends the run
\* with, "ok" when it gets a row
validate(phenopacket_json, pool) ==
    IF phenopacket_json.subject = None THEN "missing_subject"
    ELSE IF htsFiles_check(phenopacket_json) # "ok" THEN htsFiles_check(phenopacket_json)
    ELSE IF matching_vcf_paths(vcf_filename_of(phenopacket_json), pool) = <<>>
         THEN "vcf_not_found"
    ELSE "ok"

\* the loop without its break
after_append_no_break(found) == "for_phenopacket_path"

\* lines 238-239: break when the requested sample has been found
after_append(found) == IF found THEN "return" ELSE "for_phenopacket_path"

\* the test of line 215 without the guard of line 214
skipped_unguarded(requested, sample_id) == requested # sample_id

\* no record is ever passed over
skipped_never(requested, sample_id) == FALSE

\* lines 214-216: a sample id was requested and the record has another one
skipped(requested, sample_id) == requested # None /\ requested # sample_id

\* storage_read(path) parsed: what the file holds; a file read before holds
\* what it held then.
Contents(path) ==
    IF \E f \in store : f.path = path
    THEN { f.json : f \in { g \in store : g.path = path } }
    ELSE Phenopackets

\* lines 210-239: one pass through the body of the for loop
ForPhenopacketPath ==
    /\ pc = "for_phenopacket_path"
    /\ i <= Len(phenopacket_paths)
    /\ LET phenopacket_path == phenopacket_paths[i] IN
       \E phenopacket_json \in Contents(phenopacket_path) :
        LET sample_id == phenopacket_json.subject
            found == requested_sample_id_found
                        \/ (args.sample_id # None /\ args.sample_id = sample_id)
            outcome == validate(phenopacket_json, vcf_paths)
            vcf_filename == vcf_filename_of(phenopacket_json)
            matching == matching_vcf_paths(vcf_filename, vcf_paths)
        IN
        /\ store' = store \cup {[path |-> phenopacket_path, json |-> phenopacket_json]}
        /\ io' = Append(io, ReadCall(phenopacket_path))
        /\ IF skipped(args.sample_id, sample_id)
           THEN \* continue
                /\ i' = i + 1
                /\ UNCHANGED <<pc, rows, requested_sample_id_found, error>>
           ELSE
                /\ requested_sample_id_found' = found
                /\ IF outcome # "ok"
                   THEN /\ error' = Error(outcome, phenopacket_path,
                                          IF outcome = "vcf_not_found"
                                          THEN vcf_filename ELSE <<>>)
                        /\ pc' = "exit"
                        /\ UNCHANGED <<i, rows>>
                   ELSE /\ rows' = Append(rows, [sample_id |-> sample_id,
                                                 phenopacket_path |-> phenopacket_path,
                                                 vcf_path |-> first_match(matching)])
                        /\ i' = i + 1
                        /\ pc' = after_append(found)
                        /\ UNCHANGED error
    /\ UNCHANGED <<fnvars, args, storage_prefix, phenopacket_paths, vcf_paths, metadata_df, steps>>

\* lines 241-243, reached when the loop ran out of paths or hit the break
Return ==
    /\ \/ pc = "return"
       \/ pc = "for_phenopacket_path" /\ i > Len(phenopacket_paths)
    /\ metadata_df' = rows
    /\ pc' = "main"
    /\ UNCHANGED <<fnvars, args, storage_prefix, store, io, phenopacket_paths, vcf_paths, i,
                   rows, requested_sample_id_found, steps, error>>

----------------------------------------------------------------------------
(* main *)

PhenopacketLit == <<"p", "h", "e", "n", "o", "p", "a", "c", "k", "e", "t">>
JsonLit == <<"j", "s", "o", "n">>

\* re.sub("(.phenopacket)?.json$", "", name): each "." stands for any one character
StripPhenopacketSuffix(name) ==
    LET n == Len(name)
        long == n >= 17 /\ SubSeq(name, n - 15, n - 5) = PhenopacketLit
                        /\ SubSeq(name, n - 3, n) = JsonLit
        short == n >= 5 /\ SubSeq(name, n - 3, n) = JsonLit
    IN  IF long THEN SubSeq(name, 1, n - 17)
        ELSE IF short THEN SubSeq(name, 1, n - 5)
        ELSE name

\* os.path.join(a, b)
PathJoin(a, b) ==
    IF StartsWith(b, <<"/">>) THEN b
    ELSE IF a = <<>> \/ EndsWith(a, <<"/">>) THEN a \o b
    ELSE a \o <<"/">> \o b

\* lines 285-286
output_path_prefix(output_dir, phenopacket_path) ==
    PathJoin(output_dir,
             StripPhenopacketSuffix(Basename(phenopacket_path))
                \o <<".", "l", "i", "r", "i", "c", "a", "l">>)

\* lines 250-289: the step built for one row
new_step(row) ==
    [ name |-> row.sample_id,
      inputs |-> <<row.phenopacket_path, row.vcf_path,
                   args.lirical_data_dir, args.exomiser_data_dir>>,
      gunzip |-> EndsWith(row.vcf_path, <<"g", "z">>),
      output_path_prefix |-> output_path_prefix(args.output_dir, row.phenopacket_path) ]

\* a step made for each row as soon as the row exists, inside the loop of parse_args
NewStepDuringLoop ==
    /\ pc \in {"for_phenopacket_path", "return", "main"}
    /\ Len(steps) < Len(rows)
    /\ steps' = Append(steps, new_step(rows[Len(steps) + 1]))
    /\ UNCHANGED <<fnvars, args, pc, storage_prefix, store, io, phenopacket_paths, vcf_paths, i,
                   rows, requested_sample_id_found, metadata_df, error>>

\* lines 249-289: one pass through the body of the loop over metadata_df
NewStep ==
    /\ pc = "main"
    /\ Len(steps) < Len(metadata_df)
    /\ steps' = Append(steps, new_step(metadata_df[Len(steps) + 1]))
    /\ UNCHANGED <<fnvars, args, pc, storage_prefix, store, io, phenopacket_paths, vcf_paths, i,
                   rows, requested_sample_id_found, metadata_df, error>>

\* line 292
Run ==
    /\ pc = "main"
    /\ Len(steps) = Len(metadata_df)
    /\ pc' = "done"
    /\ UNCHANGED <<fnvars, args, storage_prefix, store, io, phenopacket_paths, vcf_paths, i,
                   rows, requested_sample_id_found, metadata_df, steps, error>>

Next ==
    \/ SelectStorage
    \/ CheckPhenopacketPaths
    \/ CheckVcfPaths
    \/ ForPhenopacketPath
    \/ Return
    \/ NewStep
    \/ Run

Spec == Init /\ [][Next]_<<vars, fnvars>>

----------------------------------------------------------------------------
(* az_storage_ls and the output path prefix, each taken alone *)

\* blob names a container may hold, in the order list_blobs gives them
ContainerBlobNames ==
    << <<"d", "i", "r", "/", "a">> \o Json,                          \* dir/a.json
       <<"d", "i", "r", "/", "a">> \o Json \o <<".", "b", "a", "k">>, \* dir/a.json.bak
       <<"d", "i", "r", "/", "s", "u", "b", "/", "b">> \o Json,      \* dir/sub/b.json
       <<"d", "i", "r", "x">>,                                       \* dirx
       <<"t", "o", "p">> \o Json >>                                  \* top.json

\* the containers: any of the names, kept in order
Containers ==
    { SelectSeq(ContainerBlobNames, LAMBDA name : name \in chosen) :
        chosen \in SUBSET Range(ContainerBlobNames) }

\* the paths az_storage_ls is called on
LsPaths ==
    { Path(HAILAZ, Root \o <<"d", "i", "r">>),                       \* hail-az://a/c/dir
      Path(HAILAZ, Root \o <<"d", "i", "r", "/">>),                  \* hail-az://a/c/dir/
      Path(HAILAZ, Root \o <<"d", "i", "r", "/", "a">> \o Json),     \* hail-az://a/c/dir/a.json
      Path(HAILAZ, Root \o <<"d", "i", "r", "/", "s", "u", "b">>),   \* hail-az://a/c/dir/sub
      Path(HAILAZ, <<"a", "/", "c">>),                               \* hail-az://a/c
      Path(HAILAZ, <<"a">>) }                                        \* hail-az://a

\* file names of phenopackets
PhenopacketFileNames ==
    { <<"S", "1">> \o Json,                                          \* S1.json
      <<"S", "1", ".">> \o PhenopacketLit \o Json,                   \* S1.phenopacket.json
      <<"S", "1", "_">> \o JsonLit,                                  \* S1_json
      <<"S", "1", "_">> \o PhenopacketLit \o <<"_">> \o JsonLit,     \* S1_phenopacket_json
      <<"S", "1", ".", "t", "x", "t">>,                              \* S1.txt
      JsonLit,                                                       \* json
      <<"S", "1">> \o Json \o <<".", "g", "z">> }                    \* S1.json.gz

OutputDirs == { Path(GS, OutDir), Path(GS, OutDir \o Slash) }

FnCalls ==
    [op : {"az_storage_ls"}, path : LsPaths, blobs : Containers]
    \cup [op : {"output_path_prefix"}, output_dir : OutputDirs,
          phenopacket_path : { Path(GS, MetaDir \o Slash \o name) : name \in PhenopacketFileNames }]

InitFn ==
    /\ args = CommandLine(GS, GS, 0, <<MetaDir>>, <<VcfDir>>, None)
    /\ pc = "fn"
    /\ storage_prefix = <<>>
    /\ store = {}
    /\ io = <<>>
    /\ phenopacket_paths = <<>>
    /\ vcf_paths = <<>>
    /\ i = 1
    /\ rows = <<>>
    /\ requested_sample_id_found = FALSE
    /\ metadata_df = <<>>
    /\ steps = <<>>
    /\ error = NoError
    /\ fn_in \in FnCalls
    /\ fn_out = NoResult

\* a call of az_storage_ls, lines 102-124
AzStorageLs ==
    /\ pc = "fn"
    /\ fn_in.op = "az_storage_ls"
    /\ ~fn_out.done
    /\ LET r == az_storage_ls(fn_in.path, fn_in.blobs) IN
        fn_out' = [done |-> TRUE, raised |-> r.raised, value |-> r.paths]
    /\ UNCHANGED <<vars, fn_in>>

\* the output path prefix of one row, lines 285-286
OutputPathPrefix ==
    /\ pc = "fn"
    /\ fn_in.op = "output_path_prefix"
    /\ ~fn_out.done
    /\ fn_out' = [done |-> TRUE, raised |-> FALSE,
                  value |-> output_path_prefix(fn_in.output_dir, fn_in.phenopacket_path)]
    /\ UNCHANGED <<vars, fn_in>>

NextFn ==
    \/ AzStorageLs
    \/ OutputPathPrefix

SpecFn == InitFn /\ [][NextFn]_<<vars, fnvars>>

----------------------------------------------------------------------------
(* Properties *)

Returned == pc \in {"main", "done"}
Aborted == pc = "exit"

\* the phenopacket read from a path
Read(path) == (CHOOSE f \in store : f.path = path).json
WasRead(path) == \E f \in store : f.path = path

\* the file name a row's phenopacket refers to
ReferencedFileName(row) == vcf_filename_of(Read(row.phenopacket_path))

Rows(table) == { table[k] : k \in 1..Len(table) }
\* C1 (as stated): in a returned table the referenced file name of every
\* entry is a substring of the basename of the entry's vcf_path.
C1_InBasename ==
    Returned =>
        \A row \in Rows(metadata_df) :
            Contains(ReferencedFileName(row), Basename(row.vcf_path))

\* C1 (amended): in a returned table the referenced file name of every entry
\* is a substring of the entry's whole vcf_path.
C1_InPath ==
    Returned =>
        \A row \in Rows(metadata_df) :
            Contains(ReferencedFileName(row), row.vcf_path)

\* a returned entry matched through a folder of the path, not the basename
C1_Witness ==
    /\ Returned
    /\ \E row \in Rows(metadata_df) :
        /\ Contains(ReferencedFileName(row), row.vcf_path)
        /\ ~Contains(ReferencedFileName(row), Basename(row.vcf_path))

\* C2: in a returned table no two entries have the same phenopacket_path.
C2_UniqueMetadataPath ==
    Returned =>
        \A a, b \in 1..Len(metadata_df) :
            a # b => metadata_df[a].phenopacket_path # metadata_df[b].phenopacket_path

UniqueSampleIds(table) ==
    \A a, b \in 1..Len(table) : a # b => table[a].sample_id # table[b].sample_id

\* C3 (as stated): in a returned table no two entries have the same sample_id.
C3_UniqueSampleId == Returned => UniqueSampleIds(metadata_df)

\* C3 (amended): with a requested sample id the returned table has unique
\* sample ids; without one it has them exactly when the subject ids of the
\* phenopackets, taken path by path, are pairwise different.
C3_UniqueUnderFilter ==
    Returned =>
        /\ args.sample_id # None => UniqueSampleIds(metadata_df)
        /\ args.sample_id = None =>
            (UniqueSampleIds(metadata_df) <=>
                \A a, b \in 1..Len(phenopacket_paths) :
                    a # b => Read(phenopacket_paths[a]).subject
                                # Read(phenopacket_paths[b]).subject)

\* a table returned under a request, with paths after the requested one
C3_Witness ==
    /\ Returned
    /\ args.sample_id # None
    /\ metadata_df # <<>>
    /\ i <= Len(phenopacket_paths)
    /\ phenopacket_paths[i] = metadata_df[1].phenopacket_path

\* C4 (as stated): in a returned table no vcf_path is in two entries.
C4_OneToOne ==
    Returned =>
        \A a, b \in 1..Len(metadata_df) :
            a # b => metadata_df[a].vcf_path # metadata_df[b].vcf_path

\* C4 (amended): every entry of a returned table has one vcf_path, a path of
\* the pool, and entries that refer to the same file name have the same
\* vcf_path; two entries may have the same vcf_path.
C4_ManyToOne ==
    Returned =>
        /\ \A row \in Rows(metadata_df) : row.vcf_path \in Range(vcf_paths)
        /\ \A r1, r2 \in Rows(metadata_df) :
            ReferencedFileName(r1) = ReferencedFileName(r2) => r1.vcf_path = r2.vcf_path

\* two phenopackets at different paths paired with the same vcf
C4_Witness ==
    /\ Returned
    /\ \E r1, r2 \in Rows(metadata_df) :
        /\ r1.phenopacket_path # r2.phenopacket_path
        /\ r1.vcf_path = r2.vcf_path
        /\ ReferencedFileName(r1) # ReferencedFileName(r2)

\* the paths of the command line and what comes before their first ":"
ConfiguredPaths ==
    {args.lirical_data_dir, args.exomiser_data_dir, args.output_dir}
        \cup Range(args.phenopacket_paths) \cup Range(args.vcf)

MixedPrefixes ==
    \E p \in ConfiguredPaths :
        SplitFirst(p, ":") # SplitFirst(args.lirical_data_dir, ":")

\* C5: when two configured paths have different prefixes the run ends with
\* the configuration error, and nothing has been listed or read.
C5_MixedPrefixesAbort ==
    (MixedPrefixes /\ pc # "parse_args") =>
        /\ Aborted
        /\ error.kind = "mixed_prefixes"
        /\ io = <<>>
        /\ store = {}

\* the run ended on the configuration error, the odd path being a --vcf one
C5_Witness ==
    /\ Aborted
    /\ error.kind = "mixed_prefixes"
    /\ \E p \in Range(args.vcf) :
        SplitFirst(p, ":") # SplitFirst(args.lirical_data_dir, ":")
    /\ SplitFirst(args.output_dir, ":") = SplitFirst(args.lirical_data_dir, ":")

\* C6 (as stated): when a phenopacket of the batch has no subject id, no
\* table is returned, with or without a requested sample id.
C6_MissingSubjectAborts ==
    (\E f \in store : f.json.subject = None) => ~Returned

\* C6 (amended): without a requested sample id, once a phenopacket with no
\* subject id is read the run has ended on the missing-subject error for that
\* path with no table and no step, whatever rows came before; with a requested
\* sample id the missing-subject error never arises.
C6_MissingSubjectAbortsUnfiltered ==
    /\ (args.sample_id = None /\ \E f \in store : f.json.subject = None) =>
            /\ Aborted
            /\ error.kind = "missing_subject"
            /\ WasRead(error.path) /\ Read(error.path).subject = None
            /\ metadata_df = <<>>
            /\ steps = <<>>
    /\ args.sample_id # None => error.kind # "missing_subject"

\* the run ended on a phenopacket with no subject id after a well-formed one
C6_Witness ==
    /\ Aborted
    /\ args.sample_id = None
    /\ error.kind = "missing_subject"
    /\ rows # <<>>
    /\ metadata_df = <<>>

\* the read calls made so far, in order
Reads == SelectSeq(io, LAMBDA call : call.op = "read")

\* C7: with a requested sample id, once a row has been appended the loop is
\* over: the row is the only one and carries the requested id, it is for the
\* first path whose phenopacket has that id, the paths read are exactly the
\* paths up to it, and the table returned is that single row.
C7_EarlyExit ==
    (args.sample_id # None /\ rows # <<>>) =>
        /\ pc \in {"return", "main", "done"}
        /\ Len(rows) = 1
        /\ rows[1].sample_id = args.sample_id
        /\ rows[1].phenopacket_path = phenopacket_paths[i - 1]
        /\ \A k \in 1..(i - 2) : Read(phenopacket_paths[k]).subject # args.sample_id
        /\ Len(Reads) = i - 1
        /\ \A k \in 1..(i - 1) : Reads[k].path = phenopacket_paths[k]
        /\ Returned => metadata_df = rows

\* the requested sample was the second of four paths: two are never read
C7_Witness ==
    /\ Returned
    /\ args.sample_id # None
    /\ Len(metadata_df) = 1
    /\ i = 3
    /\ Len(phenopacket_paths) = 4
    /\ Len(Reads) = 2

\* a path of the command line that lists nothing
EmptyPatterns ==
    { p \in Range(args.phenopacket_paths) \cup Range(args.vcf) : StorageLs(p) = <<>> }

StorageSelected == pc # "parse_args" /\ error.kind \notin {"mixed_prefixes", "unknown_prefix"}

\* C8: when a phenopacket path or a --vcf path lists nothing, the run (once
\* it has a storage backend) never gets to the loop: it is still checking
\* paths or has ended on the not-found error for a path that lists nothing,
\* and no phenopacket has been read and no row made.
C8_EmptyPatternAborts ==
    (StorageSelected /\ EmptyPatterns # {}) =>
        /\ pc \in {"check_phenopacket_paths", "check_vcf_paths", "exit"}
        /\ Aborted => (error.kind = "not_found" /\ error.path \in EmptyPatterns)
        /\ Reads = <<>>
        /\ store = {}
        /\ rows = <<>>

\* a --vcf path listed nothing after another --vcf path had listed files
C8_Witness ==
    /\ Aborted
    /\ error.kind = "not_found"
    /\ error.path \in Range(args.vcf)
    /\ \E call \in Range(io) : call.path \in Range(args.vcf) /\ StorageLs(call.path) # <<>>
    /\ Reads = <<>>

\* the first place in the pool whose path contains the file name
IsFirstContaining(k, vcf_filename, pool) ==
    /\ k \in 1..Len(pool)
    /\ Contains(vcf_filename, pool[k])
    /\ \A j \in 1..(k - 1) : ~Contains(vcf_filename, pool[j])

\* the scenario of the pool S1.vcf.gz, S2.vcf.gz, S2.vcf.gz.tbi
Scenario ==
    /\ args.sample_id = None
    /\ vcf_paths = StorageLs(Path(storage_prefix, VcfDir))
    /\ phenopacket_paths = StorageLs(Path(storage_prefix, MetaDir))
    /\ WasRead(Path(storage_prefix, Meta1))
    /\ Read(Path(storage_prefix, Meta1))
            = Phenopacket("S1", Hts("list", <<Uri(FilePrefix \o S1VcfGz)>>))
    /\ WasRead(Path(storage_prefix, Meta2))
    /\ Read(Path(storage_prefix, Meta2))
            = Phenopacket("S2", Hts("list", <<Uri(FilePrefix \o S2VcfGz)>>))

\* C9: the vcf_path of every row is the first path of the pool, in pool
\* order, that contains the referenced file name; in the scenario the table is
\* (S1, meta1, S1.vcf.gz), (S2, meta2, S2.vcf.gz); and a row for S2.vcf.gz gets
\* the .tbi path only when no S2.vcf.gz path comes before it in the pool.
C9_FirstMatch ==
    /\ \A row \in Rows(rows) :
        \E k \in 1..Len(vcf_paths) :
            /\ row.vcf_path = vcf_paths[k]
            /\ IsFirstContaining(k, ReferencedFileName(row), vcf_paths)
    /\ (Scenario /\ Returned) =>
        metadata_df =
            << [sample_id |-> "S1", phenopacket_path |-> Path(storage_prefix, Meta1),
                vcf_path |-> Path(storage_prefix, Vcf1)],
               [sample_id |-> "S2", phenopacket_path |-> Path(storage_prefix, Meta2),
                vcf_path |-> Path(storage_prefix, Vcf2)] >>
    /\ \A row \in Rows(rows) :
        (ReferencedFileName(row) = S2VcfGz /\ EndsWith(row.vcf_path, Tbi)) =>
            \E k \in 1..Len(vcf_paths) :
                /\ vcf_paths[k] = row.vcf_path
                /\ \A j \in 1..Len(vcf_paths) :
                    vcf_paths[j] = Path(storage_prefix, Vcf2) => k < j

\* the scenario's table has been returned
C9_Witness == Scenario /\ Returned /\ Len(metadata_df) = 2

\* the .tbi path was given first and is the one picked
C9_WitnessTbi ==
    /\ Returned
    /\ \E row \in Rows(metadata_df) :
        /\ ReferencedFileName(row) = S2VcfGz
        /\ EndsWith(row.vcf_path, Tbi)
        /\ Path(storage_prefix, Vcf2) \in Range(vcf_paths)

\* a phenopacket that was read and not passed over by the request
Processed(f) == args.sample_id = None \/ f.json.subject = args.sample_id

\* C10: once a processed phenopacket with a subject id and a uri has been read
\* whose file name is in no path of the pool, the run has ended on the
\* vcf-not-found error naming that file name and that phenopacket path, and no
\* table is returned and no step made.
C10_UnresolvedAborts ==
    \A f \in store :
        ( /\ Processed(f)
          /\ f.json.subject # None
          /\ htsFiles_check(f.json) = "ok"
          /\ \A k \in 1..Len(vcf_paths) : ~Contains(vcf_filename_of(f.json), vcf_paths[k]) )
        => /\ Aborted
           /\ error = Error("vcf_not_found", f.path, vcf_filename_of(f.json))
           /\ ~Returned
           /\ metadata_df = <<>>
           /\ steps = <<>>

\* the run ended on a file name found nowhere, after a row had been made
C10_Witness ==
    /\ Aborted
    /\ error.kind = "vcf_not_found"
    /\ rows # <<>>
    /\ \A k \in 1..Len(vcf_paths) : ~Contains(error.filename, vcf_paths[k])

\* the four shapes of a phenopacket with no usable file reference
MissingFileReference(json) ==
    \/ json.hts_kind = "absent"
    \/ json.hts_kind = "notalist"
    \/ json.hts_kind = "list" /\ json.htsFiles = <<>>
    \/ json.hts_kind = "list" /\ json.htsFiles # <<>> /\ ~json.htsFiles[1].has_uri

\* C11: once a processed phenopacket with a subject id has been read whose
\* htsFiles is absent, not a list, an empty list, or has a first element with
\* no uri, the run has ended on the same missing-htsFiles error for that path,
\* and no row was appended for it.
C11_SameMissingFileReferenceError ==
    \A f \in store :
        (Processed(f) /\ f.json.subject # None /\ MissingFileReference(f.json))
        => /\ Aborted
           /\ error = Error("missing_htsfiles", f.path, <<>>)
           /\ \A row \in Rows(rows) : row.phenopacket_path # f.path

\* whether sub is a subsequence of seq (elements in order, gaps allowed)
RECURSIVE IsSubsequence(_, _)
IsSubsequence(sub, seq) ==
    IF sub = <<>> THEN TRUE
    ELSE IF seq = <<>> THEN FALSE
    ELSE IF Head(sub) = Head(seq) THEN IsSubsequence(Tail(sub), Tail(seq))
    ELSE IsSubsequence(sub, Tail(seq))

\* the listings of the paths of a list, one after the other
RECURSIVE Listings(_)
Listings(paths) ==
    IF paths = <<>> THEN <<>> ELSE StorageLs(Head(paths)) \o Listings(Tail(paths))

PathsOf(table) == [k \in 1..Len(table) |-> table[k].phenopacket_path]

\* C12: the phenopacket paths of the rows, in row order, are a subsequence of
\* the expanded list, which is the listings of the phenopacket arguments in
\* argument order.
C12_InputOrder ==
    (pc \in {"for_phenopacket_path", "return", "main", "done"}) =>
        /\ phenopacket_paths = Listings(args.phenopacket_paths)
        /\ IsSubsequence(PathsOf(rows), phenopacket_paths)
        /\ Returned => IsSubsequence(PathsOf(metadata_df), Listings(args.phenopacket_paths))

\* a table of three rows from two arguments, the file first and then its folder
C12_Witness ==
    /\ Returned
    /\ Len(args.phenopacket_paths) = 2
    /\ args.phenopacket_paths[1] # args.phenopacket_paths[2]
    /\ Len(metadata_df) = 3
    /\ metadata_df[1].sample_id # metadata_df[3].sample_id

\* C13: with a requested sample id, as long as no phenopacket read has that
\* id, the loop raises no error and makes no row, whatever the phenopackets
\* hold; the table it then returns is empty and no step is made.
C13_RequestedSampleNotFound ==
    ( /\ args.sample_id # None
      /\ pc \in {"for_phenopacket_path", "return", "main", "done", "exit"}
      /\ vcf_paths # <<>>
      /\ \A f \in store : f.json.subject # args.sample_id )
    => /\ ~Aborted
       /\ error = NoError
       /\ rows = <<>>
       /\ ~requested_sample_id_found
       /\ Returned => (metadata_df = <<>> /\ steps = <<>> /\ Len(Reads) = Len(phenopacket_paths))

\* an empty table was returned after reading a phenopacket without subject id
\* and one of another sample whose htsFiles is missing
C13_Witness ==
    /\ Returned
    /\ args.sample_id # None
    /\ metadata_df = <<>>
    /\ \E f \in store : f.json.subject = None
    /\ \E f \in store : f.json.subject \notin {None, args.sample_id}
                            /\ MissingFileReference(f.json)

\* C14: a step exists only after parse_args has returned the whole table
\* without error (the loop ran out of paths or broke on the requested
\* sample), and a run that ended on an error has made no step, rows made
\* before the error included.
C14_AllOrNothing ==
    /\ steps # <<>> =>
        /\ Returned
        /\ error = NoError
        /\ metadata_df = rows
        /\ i > Len(phenopacket_paths) \/ requested_sample_id_found
        /\ Len(steps) <= Len(metadata_df)
    /\ Aborted => steps = <<>>

\* the run ended on an error after a row had been made, and no step exists
C14_Witness ==
    /\ Aborted
    /\ error.kind \in {"missing_subject", "missing_htsfiles", "vcf_not_found"}
    /\ rows # <<>>
    /\ steps = <<>>

\* a record with another sample id than the requested one that would not
\* pass validation
WouldFail(json) ==
    \/ json.subject = None
    \/ MissingFileReference(json)
    \/ \A k \in 1..Len(vcf_paths) : ~Contains(vcf_filename_of(json), vcf_paths[k])

\* C15: with a requested sample id, a phenopacket with another id (or none)
\* gets no row and raises no error: every row carries the requested id, an
\* error of the loop is about a phenopacket with the requested id, and each
\* phenopacket read so far was either of another id or the one that ended the
\* loop.
C15_OtherSamplesSkipped ==
    (args.sample_id # None) =>
        /\ \A row \in Rows(rows) : row.sample_id = args.sample_id
        /\ \A row \in Rows(rows) : Read(row.phenopacket_path).subject = args.sample_id
        /\ (Aborted /\ error.kind \in {"missing_subject", "missing_htsfiles",
                                       "IndexError", "vcf_not_found"})
                => Read(error.path).subject = args.sample_id
        /\ \A f \in store :
            f.json.subject # args.sample_id =>
                /\ error.path # f.path
                /\ \A row \in Rows(rows) : row.phenopacket_path # f.path

\* a record of another sample that would not pass validation was read and
\* passed over, and the requested sample after it got its row
C15_Witness ==
    /\ Returned
    /\ args.sample_id # None
    /\ Len(metadata_df) = 1
    /\ \E f \in store : f.json.subject # args.sample_id /\ WouldFail(f.json)

\* what comes before the first ":" of the configured paths
ConfiguredPrefixes == { SplitFirst(p, ":") : p \in ConfiguredPaths }

\* C16: once past the prefix check, the run has a storage backend exactly
\* when the configured paths have one prefix and it is gs or hail-az; with one
\* prefix that is neither, the run has ended on the unknown-prefix error and
\* nothing has been listed or read.
C16_UnknownPrefixAborts ==
    (pc # "parse_args") =>
        /\ StorageSelected <=>
            (Cardinality(ConfiguredPrefixes) = 1 /\ ConfiguredPrefixes \subseteq {GS, HAILAZ})
        /\ (Cardinality(ConfiguredPrefixes) = 1 /\ ~(ConfiguredPrefixes \subseteq {GS, HAILAZ}))
            => /\ Aborted
               /\ error.kind = "unknown_prefix"
               /\ io = <<>>
               /\ store = {}
               /\ phenopacket_paths = <<>> /\ vcf_paths = <<>>

\* every path on the unknown scheme, and the run ended on the unknown-prefix error
C16_Witness ==
    /\ Aborted
    /\ error.kind = "unknown_prefix"
    /\ ConfiguredPrefixes = {S3}

\* C17: a table returned without a requested sample id has one row per path
\* of the expanded list, row k carrying path k and the subject id read from
\* it; a table returned with a requested sample id has at most one row.
C17_OneRowPerPath ==
    Returned =>
        /\ args.sample_id = None =>
            /\ Len(metadata_df) = Len(phenopacket_paths)
            /\ \A k \in 1..Len(metadata_df) :
                /\ metadata_df[k].phenopacket_path = phenopacket_paths[k]
                /\ metadata_df[k].sample_id = Read(phenopacket_paths[k]).subject
        /\ args.sample_id # None => Len(metadata_df) <= 1

\* a table of four rows, from a folder of two phenopackets given twice
C17_Witness ==
    /\ Returned
    /\ args.sample_id = None
    /\ Len(phenopacket_paths) = 4
    /\ Len(metadata_df) = 4
    /\ metadata_df[1].sample_id # metadata_df[2].sample_id

\* the blob or folder name a path under hail-az://a/c/ stands for
NamedBy(path) == RStripSlash(From(path, Len(Path(HAILAZ, Root))))

\* the blobs directly under a folder, as full paths, in order
DirectlyUnder(folder, blobs) ==
    LET kept == SelectSeq(blobs, LAMBDA name :
                    /\ StartsWith(name, folder \o Slash)
                    /\ ~Contains(Slash, From(name, Len(folder) + 1)))
    IN  [k \in 1..Len(kept) |-> Path(HAILAZ, Root \o kept[k])]

\* C18: az_storage_ls called on the path of a blob gives that blob alone, and
\* called on the path of a folder gives the blobs directly under the folder,
\* whatever other blobs the container holds.
C18_ExactListing ==
    (fn_in.op = "az_storage_ls" /\ fn_out.done /\ StartsWith(fn_in.path, Path(HAILAZ, Root))) =>
        LET name == NamedBy(fn_in.path)
            is_blob == name \in Range(fn_in.blobs)
            is_folder == \E b \in Range(fn_in.blobs) : StartsWith(b, name \o Slash)
        IN  /\ ~fn_out.raised
            /\ (is_blob /\ ~is_folder) => fn_out.value = <<Path(HAILAZ, Root \o name)>>
            /\ (is_folder /\ ~is_blob) => fn_out.value = DirectlyUnder(name, fn_in.blobs)

\* name with a literal ".phenopacket.json" or ".json" at its end taken off
StripLiteralSuffix(name) ==
    IF EndsWith(name, <<".">> \o PhenopacketLit \o Json)
    THEN SubSeq(name, 1, Len(name) - Len(<<".">> \o PhenopacketLit \o Json))
    ELSE IF EndsWith(name, Json) THEN SubSeq(name, 1, Len(name) - Len(Json))
    ELSE name

\* C19: the output path prefix of a row is the output directory joined with
\* the phenopacket's file name, its ".json" or ".phenopacket.json" taken off,
\* followed by ".lirical".
C19_OutputPrefixLiteralSuffix ==
    (fn_in.op = "output_path_prefix" /\ fn_out.done) =>
        fn_out.value =
            PathJoin(fn_in.output_dir,
                     StripLiteralSuffix(Basename(fn_in.phenopacket_path))
                        \o <<".", "l", "i", "r", "i", "c", "a", "l">>)

\* uri with "file:///" taken off its front, when it starts with it
StripLeadingFilePrefix(uri) ==
    IF StartsWith(uri, FilePrefix) THEN From(uri, Len(FilePrefix)) ELSE uri

\* C20: the file name a record is matched under is the uri of its first
\* htsFiles entry with a leading "file:///" taken off and nothing else
\* changed: the vcf-not-found error names that file name.
C20_LeadingFilePrefixOnly ==
    (Aborted /\ error.kind = "vcf_not_found") =>
        error.filename = StripLeadingFilePrefix(Read(error.path).htsFiles[1].uri)

====
